---------------------------- MODULE Spec2Model ----------------------------
(***************************************************************************)
(* A model of tvnotifier (src/src/main.rs): main reads its configuration,  *)
(* reads the tracked show ids, fetches the next episode of every show in    *)
(* concurrent tasks, joins and sorts them, looks every tracked movie up     *)
(* sequentially, and prints the result (nomail) or mails it.                *)
(*                                                                         *)
(* Time.  An instant is an integer number of ticks since the Unix epoch     *)
(* (UTC); a day has TicksPerDay ticks.  The local calendar date of an      *)
(* instant t is DateNaive(t).  The wall clock is read as one date, Today,   *)
(* for the whole run (a run lasts seconds; a run across midnight is not     *)
(* modelled).                                                               *)
(***************************************************************************)
EXTENDS Integers, Sequences, FiniteSets, TLC

VARIABLES
    pc,            \* where main is
    panic_msg,     \* the message main panicked with ("" while it has not)
    config,        \* the state of the configuration file named by -config
    no_mail,       \* the -nomail flag
    db,            \* the database: [shows, movies, users]
    tvmaze,        \* the episode API: show id -> response
    availability,  \* the availability API: movie id -> response
    show_ids,      \* main: show_ids
    handles,       \* get_shows_parallel: show_handles, the spawned tasks
    joined,        \* get_shows_parallel: how many handles the join loop awaited
    acc,           \* get_shows_parallel: the local vector shows
    shows,         \* main: shows (<<>> while unset, <<list>> once returned)
    movie_ids,     \* main: the movie ids still to look up
    movie,         \* main: the movie the last lookup returned
    movie_to_platforms, \* main: title -> matching platforms
    subscriptions, \* main: the recipients read from the database
    requests,      \* the HTTP requests started so far, in order
    printed,       \* the lines written to standard output, in order
    mailbox        \* the messages handed to the SMTP relay and accepted

vars == <<pc, panic_msg, config, no_mail, db, tvmaze, availability, show_ids,
          handles, joined, acc, shows, movie_ids, movie, movie_to_platforms,
          subscriptions, requests, printed, mailbox>>

---------------------------------------------------------------------------
(* Bounds of the model. *)

MaxShows == 2       \* show ids in the list get_shows_parallel is given
MaxMainShows == 2   \* tracked shows in a whole run
MaxMainMovies == 1  \* tracked movies in a whole run
MaxMovies == 2      \* movie ids in the movie loop taken alone
MaxOfferings == 2   \* offerings in one availability response
MaxRenderLen == 3   \* shows in the list handed to the output step

---------------------------------------------------------------------------
(* Dates and times. *)

FUTURE_DAY_LIMIT == 7

TicksPerDay == 2

\* The local time zone's offset from UTC, in ticks.
LocalOffset == 1

\* Local::now().date_naive()
Today == 1

\* DateTime<Local>::date_naive: the local calendar date of an instant.
DateNaive(t) == (t + LocalOffset) \div TicksPerDay

\* DateTime<FixedOffset>::default(): the Unix epoch.
DefaultTime == 0

\* The first instant of local day d.
DayStart(d) == d * TicksPerDay - LocalOffset

\* show_time.format(DATE_TIME_FORMAT): the local date and time of day.  (The
\* format drops the year; the instants of the model lie within one year.)
FormatDateTime(t) ==
    [date |-> DateNaive(t), time |-> (t + LocalOffset) % TicksPerDay]

\* The instants an airstamp of the model can denote: the epoch, the first and
\* last tick of today, tomorrow, the last tick of the last day inside the
\* horizon and the first tick after it.
AirTimes ==
    { DefaultTime,
      DayStart(Today), DayStart(Today + 1) - 1,
      DayStart(Today + 1),
      DayStart(Today + FUTURE_DAY_LIMIT + 1) - 1,
      DayStart(Today + FUTURE_DAY_LIMIT + 1) }

---------------------------------------------------------------------------
(* JSON values of the episode API.  A field of an object is absent, null,   *)
(* or a string; an airstamp string is an RFC 3339 time (denoting instant t) *)
(* or not.                                                                  *)

Absent == [kind |-> "absent"]
Null == [kind |-> "null"]
Str(s) == [kind |-> "str", v |-> s]
Rfc3339(t) == [kind |-> "rfc3339", t |-> t]
Garbage == [kind |-> "garbage"]

\* Value::as_str().unwrap_or_default() on a present field.
AsStrOrDefault(j) == IF j.kind = "str" THEN j.v ELSE ""

\* DateTime::parse_from_rfc3339(airstamp).unwrap_or_default(), airstamp being
\* as_str().unwrap_or_default() of the field: null and non-time strings parse
\* to nothing and give the default.
ParseAirstampOrDefault(j) == IF j.kind = "rfc3339" THEN j.t ELSE DefaultTime

\* Indexing a serde_json Map by a key it does not hold panics.
ParseShowPanics(ep) == ep.name.kind = "absent" \/ ep.airstamp.kind = "absent"

parse_show(show_id, show_name, ep) ==
    [id |-> show_id,
     name |-> show_name,
     episode_name |-> AsStrOrDefault(ep.name),
     show_time |-> ParseAirstampOrDefault(ep.airstamp)]

\* The results of get_next_episode, and a panic inside it.
ResErr(msg) == [kind |-> "Err", msg |-> msg]
ResPanic == [kind |-> "Panic"]
ResNone == [kind |-> "None"]
ResSome(show) == [kind |-> "Some", show |-> show]

NextEpisodeOf(show_id, resp) ==
    LET next_episode == resp.embedded.nextepisode IN
    IF next_episode.kind # "object" THEN ResNone
    ELSE IF ParseShowPanics(next_episode) THEN ResPanic
    ELSE ResSome(parse_show(show_id, resp.name.v, next_episode))

\* get_next_episode without the look at the previous episode.
get_next_episode_next_only(show_id, resp) ==
    IF resp.kind # "json" THEN ResErr(resp.kind)
    ELSE IF resp.name.kind # "str" THEN ResErr("show name not found")
    ELSE IF resp.embedded.kind # "object" THEN ResNone
    ELSE NextEpisodeOf(show_id, resp)

get_next_episode(show_id, resp) ==
    IF resp.kind # "json" THEN ResErr(resp.kind)
    ELSE IF resp.name.kind # "str" THEN ResErr("show name not found")
    ELSE IF resp.embedded.kind # "object" THEN ResNone
    ELSE LET prev_episode == resp.embedded.previousepisode IN
         IF prev_episode.kind = "object"
         THEN IF ParseShowPanics(prev_episode) THEN ResPanic
              ELSE LET prev_show == parse_show(show_id, resp.name.v, prev_episode) IN
                   IF DateNaive(prev_show.show_time) = Today
                   THEN ResSome(prev_show)
                   ELSE NextEpisodeOf(show_id, resp)
         ELSE NextEpisodeOf(show_id, resp)

\* The body of a spawned task: the error is turned into its text.
FetchTask(show_id, resp) == get_next_episode(show_id, resp)

---------------------------------------------------------------------------
(* shows.sort_by(|a, b| a.show_time.cmp(&b.show_time)): a stable sort.      *)

RECURSIVE InsertByShowTime(_, _)
InsertByShowTime(show, sorted) ==
    IF sorted = <<>> THEN <<show>>
    ELSE IF show.show_time < Head(sorted).show_time
         THEN <<show>> \o sorted
         ELSE <<Head(sorted)>> \o InsertByShowTime(show, Tail(sorted))

RECURSIVE SortByShowTime(_)
SortByShowTime(list) ==
    IF list = <<>> THEN <<>>
    ELSE InsertByShowTime(list[Len(list)], SortByShowTime(SubSeq(list, 1, Len(list) - 1)))

---------------------------------------------------------------------------
(* The availability API and get_streaming_platforms.                        *)

Service(service, streaming_type, addon) ==
    [service |-> service, streaming_type |-> streaming_type, addon |-> addon]

\* service.addon.clone().unwrap_or_else(|| service.service.clone())
PlatformName(service) ==
    IF service.addon.kind = "str" THEN service.addon.v ELSE service.service

\* A filter that keeps subscriptions only.
IsSubscriptionOnly(service) == service.streaming_type = "subscription"

IsSubscriptionService(service) ==
    service.streaming_type = "subscription" \/ service.streaming_type = "addon"

RECURSIVE MapPlatformName(_)
MapPlatformName(services) ==
    IF services = <<>> THEN <<>>
    ELSE <<PlatformName(Head(services))>> \o MapPlatformName(Tail(services))

\* The filter and map over root.result.streaming_info.us.
SubscriptionServices(us) == MapPlatformName(SelectSeq(us, IsSubscriptionService))

\* get_streaming_platforms on the response the API gives for the movie id,
\* once the request has been sent.
get_streaming_platforms(resp) ==
    IF resp.kind # "json" THEN ResErr(resp.kind)
    ELSE [kind |-> "Ok",
          movie |-> [title |-> resp.title,
                     platforms |-> SubscriptionServices(resp.us)]]

\* platforms.into_iter().collect::<HashSet<String>>()
ToSet(seq) == { seq[i] : i \in DOMAIN seq }

\* subscribed_movie_platforms.intersection(&platforms_set)
Intersection(subscribed, platforms) == subscribed \cap ToSet(platforms)

\* An insert that keeps the value a key already has.
MapInsertIfAbsent(map, key, value) ==
    [k \in DOMAIN map \cup {key} |-> IF k \in DOMAIN map THEN map[k] ELSE value]

\* movie_to_platforms.insert(title, intersection)
MapInsert(map, key, value) ==
    [k \in DOMAIN map \cup {key} |-> IF k = key THEN value ELSE map[k]]

\* The body of the movie loop after a successful lookup.
RecordMovie(map, subscribed, found) ==
    LET intersection == Intersection(subscribed, found.platforms) IN
    IF Cardinality(intersection) > 0
    THEN MapInsert(map, found.title, intersection)
    ELSE map

EmptyMap == [k \in {} |-> {}]

---------------------------------------------------------------------------
(* Output.                                                                  *)

\* impl Display for Show
DisplayLine(show) ==
    [kind |-> "show",
     time |-> FormatDateTime(show.show_time),
     name |-> show.name,
     episode_name |-> show.episode_name]

\* Show::html
HtmlLine(show) ==
    [kind |-> "show",
     time |-> FormatDateTime(show.show_time),
     id |-> show.id,
     name |-> show.name,
     episode_name |-> show.episode_name]

\* "{movie_id} available on {platforms:?}"
MovieLine(title, platforms) ==
    [kind |-> "movie", title |-> title, platforms |-> platforms]

\* shows.iter().for_each(|show| println!("{show}"))
DisplayLines(list) == [k \in DOMAIN list |-> DisplayLine(list[k])]

\* The loops of send_email that push show.html() for every show of a part.
HtmlLines(list) == [k \in DOMAIN list |-> HtmlLine(list[k])]

\* The orders a HashMap can be iterated in: every order of its keys.
KeyOrders(map) ==
    { order \in [1..Cardinality(DOMAIN map) -> DOMAIN map] :
        \A i, j \in DOMAIN order : i # j => order[i] # order[j] }

\* A loop that stops at the first show on or past the limit.
RECURSIVE PartitionBeforeLimit(_, _, _)
PartitionBeforeLimit(list, today_shows, future_shows) ==
    IF list = <<>> THEN [today |-> today_shows, future |-> future_shows]
    ELSE LET show == Head(list) IN
         IF DateNaive(show.show_time) >= Today + FUTURE_DAY_LIMIT
         THEN [today |-> today_shows, future |-> future_shows]
         ELSE IF DateNaive(show.show_time) = Today
              THEN PartitionBeforeLimit(Tail(list), Append(today_shows, show), future_shows)
              ELSE PartitionBeforeLimit(Tail(list), today_shows, Append(future_shows, show))

\* The loop of send_email over shows: it stops at the first show past the
\* limit, and sorts every show before it into today's or the future ones.
RECURSIVE Partition(_, _, _)
Partition(list, today_shows, future_shows) ==
    IF list = <<>> THEN [today |-> today_shows, future |-> future_shows]
    ELSE LET show == Head(list) IN
         IF DateNaive(show.show_time) > Today + FUTURE_DAY_LIMIT
         THEN [today |-> today_shows, future |-> future_shows]
         ELSE IF DateNaive(show.show_time) = Today
              THEN Partition(Tail(list), Append(today_shows, show), future_shows)
              ELSE Partition(Tail(list), today_shows, Append(future_shows, show))

\* The message send_email builds: today's section (or the placeholder), the
\* future section when it is not empty, and the link.
EmailBody(list) ==
    LET parts == Partition(list, <<>>, <<>>) IN
    [today |-> HtmlLines(parts.today),
     today_placeholder |-> (parts.today = <<>>),
     future_heading |-> (parts.future # <<>>),
     future |-> HtmlLines(parts.future)]

---------------------------------------------------------------------------
(* The inputs of a run: the configuration file, the database, the two APIs. *)

ConfigFile(file, fault) ==
    [file |-> file, fault |-> fault, movie_platforms |-> {"B", "C"}]

\* What can be wrong with a configuration file that parses.
Faults ==
    {"none", "pg_connection_string", "rapid_api_key", "from_email",
     "smtp_host", "smtp_credentials"}

Configs ==
    {ConfigFile("missing", "none"), ConfigFile("invalid", "none")}
        \cup {ConfigFile("ok", f) : f \in Faults}

Episode(name, airstamp) ==
    [kind |-> "object", name |-> name, airstamp |-> airstamp]

Embedded(previousepisode, nextepisode) ==
    [kind |-> "object", previousepisode |-> previousepisode,
     nextepisode |-> nextepisode]

ShowJson(name, embedded) ==
    [kind |-> "json", name |-> name, embedded |-> embedded]

ShowFailures ==
    {[kind |-> "transport_error"], [kind |-> "http_status"], [kind |-> "bad_json"]}

Airstamps == {Absent, Null, Garbage} \cup {Rfc3339(t) : t \in AirTimes}

Episodes ==
    {Null} \cup {Episode(n, a) : n \in {Absent, Null, Str("Pilot")}, a \in Airstamps}

\* Every response of the episode API the model knows.
ShowResponses ==
    ShowFailures
        \cup {ShowJson(Null, Null), ShowJson(Str("Show"), Null)}
        \cup {ShowJson(Str("Show"), Embedded(p, n)) : p \in Episodes, n \in Episodes}

NextOnly(airstamp) ==
    ShowJson(Str("Show"), Embedded(Null, Episode(Str("Pilot"), airstamp)))

\* The responses a whole run draws from: a failure, no embedded data, a next
\* episode without the airstamp key, with a null airstamp, today, and past
\* the horizon.
MainShowResponses ==
    { [kind |-> "http_status"],
      ShowJson(Str("Show"), Null),
      NextOnly(Absent),
      NextOnly(Null),
      NextOnly(Rfc3339(DayStart(Today))),
      NextOnly(Rfc3339(DayStart(Today + FUTURE_DAY_LIMIT + 1))) }

\* The responses get_shows_parallel is checked on: those, and tomorrow.
FewShowResponses ==
    MainShowResponses \cup {NextOnly(Rfc3339(DayStart(Today + 1)))}

MovieJson(title, us) == [kind |-> "json", title |-> title, us |-> us]

SeqsUpTo(S, n) == UNION { [1..k -> S] : k \in 0..n }

\* The sequences of length at most n of distinct elements of 1..n.
IdLists(n) ==
    { l \in SeqsUpTo(1..n, n) : \A i, j \in DOMAIN l : i # j => l[i] # l[j] }

UserLists == {<<>>, <<"a@example.com">>, <<"not an address">>}

IsAddress(s) == s = "a@example.com"

---------------------------------------------------------------------------
(* main, one action per step between two suspension points.                 *)

Panic(msg) ==
    /\ pc' = "panicked"
    /\ panic_msg' = msg

\* fs::read_to_string(config_file).expect(..); serde_json::from_str(..).expect(..)
LoadConfig ==
    /\ pc = "start"
    /\ IF config.file = "missing" THEN Panic("config file not found")
       ELSE IF config.file = "invalid" THEN Panic("invalid config")
       ELSE pc' = "get_show_ids" /\ panic_msg' = panic_msg
    /\ UNCHANGED <<config, no_mail, db, tvmaze, availability, show_ids, handles,
                   joined, acc, shows, movie_ids, movie, movie_to_platforms,
                   subscriptions, requests, printed, mailbox>>

\* A get_ids that never fails to connect.
get_ids_connected(table) == [kind |-> "Ok", ids |-> table]

\* get_ids: connecting with the configured connection string fails or the
\* query returns the ids.
get_ids(table) ==
    IF config.fault = "pg_connection_string"
    THEN ResErr("invalid connection string")
    ELSE [kind |-> "Ok", ids |-> table]

\* let show_ids = get_ids(IdType::Show, &config).await.unwrap();
GetShowIds ==
    /\ pc = "get_show_ids"
    /\ LET r == get_ids(db.shows) IN
       IF r.kind = "Err"
       THEN Panic(r.msg) /\ show_ids' = show_ids
       ELSE pc' = "get_shows_parallel" /\ panic_msg' = panic_msg /\ show_ids' = r.ids
    /\ UNCHANGED <<config, no_mail, db, tvmaze, availability, handles, joined,
                   acc, shows, movie_ids, movie, movie_to_platforms,
                   subscriptions, requests, printed, mailbox>>

Running == [state |-> "running"]
Finished(out) == [state |-> "finished", out |-> out]

\* The requests the spawned tasks start, one per show id, in spawn order.
ShowRequests(ids) == [i \in DOMAIN ids |-> [kind |-> "show", id |-> ids[i]]]

\* The insertion of an unstable sort: a show goes before its equals.
RECURSIVE InsertBeforeEquals(_, _)
InsertBeforeEquals(show, sorted) ==
    IF sorted = <<>> THEN <<show>>
    ELSE IF show.show_time <= Head(sorted).show_time
         THEN <<show>> \o sorted
         ELSE <<Head(sorted)>> \o InsertBeforeEquals(show, Tail(sorted))

\* A return that sorts without keeping equal shows in their order.
RECURSIVE ReturnShowsUnstable(_)
ReturnShowsUnstable(list) ==
    IF list = <<>> THEN <<>>
    ELSE InsertBeforeEquals(list[Len(list)],
                            ReturnShowsUnstable(SubSeq(list, 1, Len(list) - 1)))

\* What get_shows_parallel returns once every handle gave a value.
ReturnShows(list) == SortByShowTime(list)

\* get_shows_parallel up to its first await: one task is spawned per show id;
\* with no id the join loop is empty and the sorted (empty) list is returned.
SpawnTasks ==
    /\ pc = "get_shows_parallel"
    /\ handles' = [i \in DOMAIN show_ids |-> Running]
    /\ requests' = requests \o ShowRequests(show_ids)
    /\ joined' = 0
    /\ acc' = <<>>
    /\ IF show_ids = <<>>
       THEN pc' = "get_movie_ids" /\ shows' = <<ReturnShows(<<>>)>>
       ELSE pc' = "join" /\ shows' = shows
    /\ UNCHANGED <<panic_msg, config, no_mail, db, tvmaze, availability, show_ids,
                   movie_ids, movie, movie_to_platforms, subscriptions, printed,
                   mailbox>>

\* A spawned task runs to its end, in any order with the others.
TaskCompletes(i) ==
    /\ pc = "join"
    /\ i \in DOMAIN handles
    /\ handles[i].state = "running"
    /\ handles' = [handles EXCEPT
                     ![i] = Finished(FetchTask(show_ids[i], tvmaze[show_ids[i]]))]
    /\ UNCHANGED <<pc, panic_msg, config, no_mail, db, tvmaze, availability,
                   show_ids, joined, acc, shows, movie_ids, movie,
                   movie_to_platforms, subscriptions, requests, printed, mailbox>>

\* The handle the join loop awaits next.
NextHandle == joined + 1

\* A join that lets an Err pass as no event.
JoinFailureOfPanicOnly(out) ==
    IF out.kind = "Panic" THEN "failed getting episode details" ELSE ""

\* show_handle.await?.unwrap() on what a finished task gave: the message the
\* run fails with, "" when the handle gives a value.  A task that panicked
\* makes get_shows_parallel return the join error (main's expect panics with
\* its message), an Err makes unwrap panic with the error's text.
JoinFailure(out) ==
    IF out.kind = "Panic" THEN "failed getting episode details"
    ELSE IF out.kind = "Err" THEN out.msg
    ELSE ""

\* The join loop awaits the next handle: Some(show) is pushed, None is
\* skipped.  After the last handle the list is sorted and returned to main.
JoinNext ==
    /\ pc = "join"
    /\ NextHandle \in DOMAIN handles
    /\ handles[NextHandle].state = "finished"
    /\ LET out == handles[NextHandle].out
           pushed == IF out.kind = "Some" THEN Append(acc, out.show) ELSE acc
       IN  IF JoinFailure(out) # ""
           THEN Panic(JoinFailure(out)) /\ UNCHANGED <<joined, acc, shows>>
           ELSE /\ joined' = NextHandle
                /\ acc' = pushed
                /\ panic_msg' = panic_msg
                /\ IF NextHandle = Len(handles)
                   THEN pc' = "get_movie_ids" /\ shows' = <<ReturnShows(pushed)>>
                   ELSE pc' = pc /\ shows' = shows
    /\ UNCHANGED <<config, no_mail, db, tvmaze, availability, show_ids, handles,
                   movie_ids, movie, movie_to_platforms, subscriptions, requests,
                   printed, mailbox>>

\* let movie_ids = get_ids(IdType::Movie, &config).await.unwrap(); with no
\* movie the loop is empty.
GetMovieIds ==
    /\ pc = "get_movie_ids"
    /\ LET r == get_ids(db.movies) IN
       IF r.kind = "Err"
       THEN Panic(r.msg) /\ movie_ids' = movie_ids
       ELSE /\ pc' = IF r.ids = <<>> THEN "output" ELSE "movies"
            /\ panic_msg' = panic_msg
            /\ movie_ids' = r.ids
    /\ movie_to_platforms' = EmptyMap
    /\ UNCHANGED <<config, no_mail, db, tvmaze, availability, show_ids, handles,
                   joined, acc, shows, movie, subscriptions, requests, printed,
                   mailbox>>

\* One iteration of the movie loop: the API key is made a header value (an
\* invalid key fails before any request is sent), the request is sent, and
\* the movie is recorded; after the last movie main goes on to the output.
MovieStep ==
    /\ pc = "movies"
    /\ movie_ids # <<>>
    /\ LET movie_id == Head(movie_ids)
           r == get_streaming_platforms(availability[movie_id])
       IN  IF config.fault = "rapid_api_key"
           THEN /\ Panic("failed to get movie platforms")
                /\ UNCHANGED <<movie_ids, movie, movie_to_platforms, requests>>
           ELSE /\ requests' = Append(requests, [kind |-> "movie", id |-> movie_id])
                /\ IF r.kind = "Err"
                   THEN /\ Panic("failed to get movie platforms")
                        /\ UNCHANGED <<movie_ids, movie, movie_to_platforms>>
                   ELSE /\ movie' = <<r.movie>>
                        /\ movie_to_platforms' =
                             RecordMovie(movie_to_platforms, config.movie_platforms, r.movie)
                        /\ movie_ids' = Tail(movie_ids)
                        /\ pc' = IF Tail(movie_ids) = <<>> THEN "output" ELSE pc
                        /\ panic_msg' = panic_msg
    /\ UNCHANGED <<config, no_mail, db, tvmaze, availability, show_ids, handles,
                   joined, acc, shows, subscriptions, printed, mailbox>>

\* The nomail branch: every show is printed, then every entry of the map, in
\* the order the HashMap iterates in.
PrintedLines(list, map, order) ==
    DisplayLines(list)
        \o [i \in DOMAIN order |-> MovieLine(order[i], map[order[i]])]

PrintNoMail ==
    /\ pc = "output"
    /\ no_mail
    /\ \E order \in KeyOrders(movie_to_platforms) :
           printed' = printed \o PrintedLines(shows[1], movie_to_platforms, order)
    /\ pc' = "done"
    /\ UNCHANGED <<panic_msg, config, no_mail, db, tvmaze, availability, show_ids,
                   handles, joined, acc, shows, movie_ids, movie,
                   movie_to_platforms, subscriptions, requests, mailbox>>

\* get_subscriptions: as get_ids, for the addresses of the users.
get_subscriptions(users) ==
    IF config.fault = "pg_connection_string"
    THEN ResErr("invalid connection string")
    ELSE [kind |-> "Ok", emails |-> users]

\* get_subscriptions(&config).await.expect("failed to get subscriptions")
GetSubscriptions ==
    /\ pc = "output"
    /\ ~no_mail
    /\ LET r == get_subscriptions(db.users) IN
       IF r.kind = "Err"
       THEN Panic("failed to get subscriptions") /\ subscriptions' = subscriptions
       ELSE pc' = "send_email" /\ panic_msg' = panic_msg /\ subscriptions' = r.emails
    /\ UNCHANGED <<config, no_mail, db, tvmaze, availability, show_ids, handles,
                   joined, acc, shows, movie_ids, movie, movie_to_platforms,
                   requests, printed, mailbox>>

\* What stops send_email before the message is handed to the relay: the
\* sender or a recipient is no address, there is no recipient at all (the
\* message cannot be built), or no relay can be set up for the host.  "" when
\* nothing does.
SendEmailPanic(cfg, subs) ==
    IF cfg.fault = "from_email" THEN "from_email is not an address"
    ELSE IF \E i \in DOMAIN subs : ~IsAddress(subs[i]) THEN "recipient is not an address"
    ELSE IF subs = <<>> THEN "message has no recipient"
    ELSE IF cfg.fault = "smtp_host" THEN "no relay for smtp_host"
    ELSE ""

\* send_email(&shows, &config, subscriptions).expect("couldn't send the email"):
\* the relay refuses wrong credentials and may refuse or fail otherwise.
SendEmail ==
    /\ pc = "send_email"
    /\ LET stop == SendEmailPanic(config, subscriptions) IN
       IF stop # ""
       THEN Panic(stop) /\ mailbox' = mailbox
       ELSE \E accepted \in (IF config.fault = "smtp_credentials" THEN {FALSE} ELSE BOOLEAN) :
              IF accepted
              THEN /\ mailbox' = Append(mailbox, [to |-> subscriptions,
                                                  subject |-> Today,
                                                  body |-> EmailBody(shows[1])])
                   /\ pc' = "done"
                   /\ panic_msg' = panic_msg
              ELSE Panic("couldn't send the email") /\ mailbox' = mailbox
    /\ UNCHANGED <<config, no_mail, db, tvmaze, availability, show_ids, handles,
                   joined, acc, shows, movie_ids, movie, movie_to_platforms,
                   subscriptions, requests, printed>>

Next ==
    \/ LoadConfig
    \/ GetShowIds
    \/ SpawnTasks
    \/ \E i \in DOMAIN handles : TaskCompletes(i)
    \/ JoinNext
    \/ GetMovieIds
    \/ MovieStep
    \/ PrintNoMail
    \/ GetSubscriptions
    \/ SendEmail

---------------------------------------------------------------------------
(* The state main starts in, for given inputs.                              *)

Start(cfg, nomail, database, episode_api, movie_api) ==
    /\ pc = "start"
    /\ panic_msg = ""
    /\ config = cfg
    /\ no_mail = nomail
    /\ db = database
    /\ tvmaze = episode_api
    /\ availability = movie_api
    /\ show_ids = <<>>
    /\ handles = <<>>
    /\ joined = 0
    /\ acc = <<>>
    /\ shows = <<>>
    /\ movie_ids = <<>>
    /\ movie = <<>>
    /\ movie_to_platforms = EmptyMap
    /\ subscriptions = <<>>
    /\ requests = <<>>
    /\ printed = <<>>
    /\ mailbox = <<>>

Database(show_list, movie_list, users) ==
    [shows |-> show_list, movies |-> movie_list, users |-> users]

\* The ids 1..n in order.
Ids(n) == [i \in 1..n |-> i]

OkConfig == ConfigFile("ok", "none")

Subscription(service) == Service(service, "subscription", Null)

\* The availability responses a whole run draws from: a failure, and a movie
\* on a subscribed platform.
FewMovieResponses ==
    { [kind |-> "http_status"],
      MovieJson("Heat", <<Subscription("B")>>) }

\* Whole runs: any configuration, either mode, a few shows and movies.
Init ==
    \E cfg \in Configs, nomail \in BOOLEAN, n \in 0..MaxMainShows,
       m \in 0..MaxMainMovies, users \in UserLists :
        \E episode_api \in [1..n -> MainShowResponses],
           movie_api \in [1..m -> FewMovieResponses] :
            Start(cfg, nomail, Database(Ids(n), Ids(m), users), episode_api, movie_api)

Spec == Init /\ [][Next]_vars

\* One show, any response of the episode API.
InitEpisode ==
    \E nomail \in BOOLEAN, resp \in ShowResponses :
        Start(OkConfig, nomail, Database(Ids(1), Ids(1), <<"a@example.com">>),
              [i \in 1..1 |-> resp],
              [i \in 1..1 |-> MovieJson("Heat", <<Subscription("B")>>)])

SpecEpisode == InitEpisode /\ [][Next]_vars

\* Several shows, listed in any order.
InitShows ==
    \E nomail \in BOOLEAN, ids \in IdLists(MaxShows) :
        \E episode_api \in [1..MaxShows -> FewShowResponses] :
            Start(OkConfig, nomail, Database(ids, Ids(1), <<"a@example.com">>),
                  episode_api,
                  [i \in 1..1 |-> MovieJson("Heat", <<Subscription("B")>>)])

SpecShows == InitShows /\ [][Next]_vars

\* Shows whose next episode airs at any instant of the model, or has a null
\* airstamp.
RenderResponses ==
    {NextOnly(Null)} \cup {NextOnly(Rfc3339(t)) : t \in AirTimes}

InitRender ==
    \E nomail \in BOOLEAN, n \in 0..MaxRenderLen :
        \E episode_api \in [1..n -> RenderResponses] :
            Start(OkConfig, nomail, Database(Ids(n), Ids(1), <<"a@example.com">>),
                  episode_api,
                  [i \in 1..1 |-> MovieJson("Heat", <<Subscription("B")>>)])

SpecRender == InitRender /\ [][Next]_vars

\* Movies with either of two titles, offered on the platforms of the
\* examples, against the subscribed platforms B and C.
OfferingLists ==
    { <<>>,
      <<Subscription("A"), Subscription("B")>>,
      <<Subscription("D")>>,
      <<Subscription("B")>>,
      <<Subscription("C")>>,
      <<Subscription("B"), Subscription("C")>> }

MovieResponses ==
    {[kind |-> "http_status"]}
        \cup {MovieJson(title, us) : title \in {"Heat", "Ronin"}, us \in OfferingLists}

InitMovies ==
    \E nomail \in BOOLEAN, m \in 0..MaxMovies :
        \E movie_api \in [1..m -> MovieResponses] :
            Start(OkConfig, nomail, Database(Ids(1), Ids(m), <<"a@example.com">>),
                  [i \in 1..1 |-> NextOnly(Rfc3339(DayStart(Today)))],
                  movie_api)

SpecMovies == InitMovies /\ [][Next]_vars

\* One movie, any list of offerings of any type, with or without an add-on.
Offerings ==
    { Service("A", ty, ad) :
        ty \in {"subscription", "addon", "rent", "buy"}, ad \in {Null, Str("X")} }

InitPlatforms ==
    \E nomail \in BOOLEAN, us \in SeqsUpTo(Offerings, MaxOfferings) :
        Start(OkConfig, nomail, Database(Ids(1), Ids(1), <<"a@example.com">>),
              [i \in 1..1 |-> NextOnly(Rfc3339(DayStart(Today)))],
              [i \in 1..1 |-> MovieJson("Heat", us)])

SpecPlatforms == InitPlatforms /\ [][Next]_vars

---------------------------------------------------------------------------
(* What the claims speak of.                                                *)

\* main holds the list get_shows_parallel returned.
ShowListProduced == shows # <<>>

\* The run has ended.
Terminated == ~ENABLED Next

\* The response the episode API gives for the i-th tracked show.
ResponseOf(i) == tvmaze[db.shows[i]]

\* The instant an embedded episode airs at: the one its airstamp denotes, the
\* zero time when the airstamp is null or no time.
AirTimeOf(ep) == IF ep.airstamp.kind = "rfc3339" THEN ep.airstamp.t ELSE 0

\* The local calendar date of an instant, counted in whole days.
AirDateOf(t) == CHOOSE d \in -1..(Today + FUTURE_DAY_LIMIT + 2) :
                    d * TicksPerDay <= t + LocalOffset
                        /\ t + LocalOffset < (d + 1) * TicksPerDay

\* The event get_next_episode is to make of an embedded episode.
EventOf(id, resp, ep) ==
    [id |-> id,
     name |-> resp.name.v,
     episode_name |-> IF ep.name.kind = "str" THEN ep.name.v ELSE "",
     show_time |-> AirTimeOf(ep)]

HasEmbedded(resp) == resp.kind = "json" /\ resp.embedded.kind = "object"

IsEpisode(j) == j.kind = "object"

\* An embedded episode that carries both of its keys.
CompleteEpisode(j) ==
    IsEpisode(j) => j.name.kind # "absent" /\ j.airstamp.kind # "absent"

\* A well-formed response: a JSON document with the show's name whose
\* embedded episodes, if any, carry a name and an airstamp key.
WellFormed(resp) ==
    /\ resp.kind = "json"
    /\ resp.name.kind = "str"
    /\ HasEmbedded(resp) =>
          /\ CompleteEpisode(resp.embedded.previousepisode)
          /\ CompleteEpisode(resp.embedded.nextepisode)

\* What C1 says get_next_episode returns for a well-formed response.
ExpectedEpisode(id, resp) ==
    IF ~HasEmbedded(resp) THEN ResNone
    ELSE LET prev == resp.embedded.previousepisode
             next == resp.embedded.nextepisode
         IN  IF IsEpisode(prev) /\ AirDateOf(AirTimeOf(prev)) = Today
             THEN ResSome(EventOf(id, resp, prev))
             ELSE IF IsEpisode(next) THEN ResSome(EventOf(id, resp, next))
             ELSE ResNone

IdsIn(list) == { list[k].id : k \in DOMAIN list }

\* C1: for a well-formed response get_next_episode returns the previous
\* episode when it is embedded and airs today (even when a next episode is
\* embedded too), otherwise the next episode when it is embedded, otherwise
\* no event; a response with no embedded data gives no event, not an error,
\* and its identifier is absent from the final show list.
C1_NextEpisodeChoice ==
    /\ \A i \in DOMAIN handles :
          (handles[i].state = "finished" /\ WellFormed(ResponseOf(i)))
              => handles[i].out = ExpectedEpisode(show_ids[i], ResponseOf(i))
    /\ ShowListProduced =>
          \A i \in DOMAIN show_ids :
              (WellFormed(ResponseOf(i)) /\ ~HasEmbedded(ResponseOf(i)))
                  => /\ handles[i].out = ResNone
                     /\ show_ids[i] \notin IdsIn(shows[1])

\* A previous episode that aired today was returned although a next episode
\* was embedded too, and it is the one in the final show list.
C1_Witness ==
    /\ ShowListProduced
    /\ Len(shows[1]) = 1
    /\ LET resp == ResponseOf(1) IN
          /\ WellFormed(resp) /\ HasEmbedded(resp)
          /\ IsEpisode(resp.embedded.previousepisode)
          /\ IsEpisode(resp.embedded.nextepisode)
          /\ AirTimeOf(resp.embedded.previousepisode) = DayStart(Today)
          /\ AirTimeOf(resp.embedded.nextepisode) = DayStart(Today + 1)
          /\ shows[1][1].show_time = DayStart(Today)

\* The i-th spawned fetch has ended in an error or a panic.
FetchFailed(i) ==
    /\ handles[i].state = "finished"
    /\ handles[i].out.kind \in {"Err", "Panic"}

\* The i-th spawned fetch has ended with an event or with none.
FetchSucceeded(i) ==
    /\ handles[i].state = "finished"
    /\ handles[i].out.kind \in {"Some", "None"}

\* The response for the i-th tracked show is one every fetch of it fails on:
\* no success status, no JSON body, no show name.
FailureResponse(i) ==
    IF ResponseOf(i).kind # "json" THEN TRUE ELSE ResponseOf(i).name.kind # "str"

NothingPrintedOrMailed == printed = <<>> /\ mailbox = <<>>

\* C2: the aggregation is all or nothing.  When a show fetch has failed, or
\* the response for a tracked show is a failure, no show list is produced,
\* nothing is printed or mailed, and the run can only end in failure; a show
\* list is produced only when every spawned fetch completed successfully.
C2_AllOrNothing ==
    /\ ((\E i \in DOMAIN handles : FetchFailed(i))
            \/ (\E i \in DOMAIN db.shows : FailureResponse(i)))
          => /\ ~ShowListProduced
             /\ NothingPrintedOrMailed
             /\ pc # "done"
             /\ Terminated => pc = "panicked"
    /\ ShowListProduced =>
          /\ DOMAIN handles = DOMAIN show_ids
          /\ \A i \in DOMAIN handles : FetchSucceeded(i)

\* Of several fetches one gave an event and another failed, and the run
\* ended in a panic with no list, nothing printed and nothing mailed.
C2_Witness ==
    /\ pc = "panicked"
    /\ Len(handles) >= 2
    /\ \E i, j \in DOMAIN handles :
          /\ handles[i].state = "finished" /\ handles[i].out.kind = "Some"
          /\ FetchFailed(j) /\ handles[j].out.kind = "Err"
    /\ ~ShowListProduced
    /\ NothingPrintedOrMailed

\* The place of a show id in the list get_shows_parallel was given.
PlaceOf(id) == CHOOSE i \in DOMAIN show_ids : show_ids[i] = id

\* C3: whatever order the fetches complete in, the returned list holds the
\* event of every show that has one, ascending by air time, and events of
\* equal air time in the order of their ids in the input list.
C3_SortedStable ==
    ShowListProduced =>
        LET list == shows[1] IN
        /\ IdsIn(list) = { show_ids[i] : i \in { k \in DOMAIN handles :
                                                  handles[k].out.kind = "Some" } }
        /\ \A k \in DOMAIN list : list[k] = handles[PlaceOf(list[k].id)].out.show
        /\ \A i, j \in DOMAIN list :
              i < j => /\ list[i].show_time <= list[j].show_time
                       /\ list[i].show_time = list[j].show_time
                             => PlaceOf(list[i].id) < PlaceOf(list[j].id)

\* Two events of equal air time, and a later one listed first in the input:
\* the returned list has the equal ones in input order, which here is not the
\* order of the ids.
C3_Witness ==
    /\ ShowListProduced
    /\ Len(shows[1]) >= 2
    /\ shows[1][1].show_time = shows[1][2].show_time
    /\ shows[1][1].id > shows[1][2].id

---------------------------------------------------------------------------
(* The output of a run.                                                     *)

IsShowLine(line) == line.kind = "show"
IsMovieLine(line) == line.kind = "movie"

\* The lines of a message body, today's first.
EmailLines(body) == body.today \o body.future

\* What a line says of a show event: when it airs, the show, the episode.
ShowInfo(line) ==
    [time |-> line.time, name |-> line.name, episode_name |-> line.episode_name]

ShowInfos(lines) ==
    { ShowInfo(lines[k]) : k \in { i \in DOMAIN lines : IsShowLine(lines[i]) } }

\* What a line says of a movie: its title and its matching platforms.
MovieInfos(lines) ==
    { [title |-> lines[k].title, platforms |-> lines[k].platforms] :
        k \in { i \in DOMAIN lines : IsMovieLine(lines[i]) } }

\* What the output is to say of a fetched show.
InfoOfShow(show) ==
    [time |-> [date |-> AirDateOf(show.show_time),
               time |-> (show.show_time + LocalOffset) % TicksPerDay],
     name |-> show.name,
     episode_name |-> show.episode_name]

AirsToday(show) == AirDateOf(show.show_time) = Today
WithinHorizon(show) == AirDateOf(show.show_time) <= Today + 7
RestWithinHorizon(show) == WithinHorizon(show) /\ ~AirsToday(show)

\* The lines of the output the run has made, in either mode.
OutputLines == IF no_mail THEN printed ELSE EmailLines(mailbox[1].body)

\* C4: in every output mode the show events of the output are exactly the
\* fetched ones that air on or before today + 7 days.
C4_HorizonInEveryMode ==
    pc = "done" =>
        LET kept == SelectSeq(shows[1], WithinHorizon) IN
        /\ ShowInfos(OutputLines) = { InfoOfShow(kept[k]) : k \in DOMAIN kept }
        /\ Cardinality({ i \in DOMAIN OutputLines : IsShowLine(OutputLines[i]) })
              = Len(kept)

SeqIds(list) == [k \in DOMAIN list |-> list[k].id]

InfoSeq(lines) == [k \in DOMAIN lines |-> ShowInfo(lines[k])]

InfoOfShows(list) == [k \in DOMAIN list |-> InfoOfShow(list[k])]

\* a is not later than b, as local date and time of day.
NotLater(a, b) == a.date < b.date \/ (a.date = b.date /\ a.time <= b.time)

Ascending(lines) ==
    \A i, j \in DOMAIN lines : i < j => NotLater(lines[i].time, lines[j].time)

\* C5: of the sorted list given to send_email, today's part of the message
\* holds exactly the events that air today, the future part exactly the other
\* events up to today + 7 days, each event in one part only, and each part in
\* the ascending order of the list.
C5_TodayFuturePartition ==
    mailbox # <<>> =>
        LET body == mailbox[1].body
            list == shows[1]
        IN  /\ SeqIds(body.today) = SeqIds(SelectSeq(list, AirsToday))
            /\ SeqIds(body.future) = SeqIds(SelectSeq(list, RestWithinHorizon))
            /\ InfoSeq(body.today) = InfoOfShows(SelectSeq(list, AirsToday))
            /\ InfoSeq(body.future) = InfoOfShows(SelectSeq(list, RestWithinHorizon))
            /\ ShowInfos(body.today) \cap ShowInfos(body.future) = {}
            /\ Ascending(body.today)
            /\ Ascending(body.future)
            /\ body.today_placeholder = (body.today = <<>>)
            /\ body.future_heading = (body.future # <<>>)

\* A message with an event today, an event on the last day of the horizon in
\* the future part, and a fetched event past the horizon left out.
C5_Witness ==
    /\ mailbox # <<>>
    /\ Len(mailbox[1].body.today) >= 1
    /\ \E k \in DOMAIN mailbox[1].body.future :
          mailbox[1].body.future[k].time.date = Today + 7
    /\ \E k \in DOMAIN shows[1] : ~WithinHorizon(shows[1][k])

\* C8: for the same aggregated result the console output and the message
\* body say the same: the same show events and the same qualifying movies
\* with their matching platforms.
C8_SameContentInBothModes ==
    pc = "done" =>
        LET console == IF no_mail THEN printed
                       ELSE PrintedLines(shows[1], movie_to_platforms,
                                         CHOOSE order \in KeyOrders(movie_to_platforms) : TRUE)
            email == EmailLines(IF no_mail THEN EmailBody(shows[1])
                                ELSE mailbox[1].body)
        IN  /\ ShowInfos(console) = ShowInfos(email)
            /\ MovieInfos(console) = MovieInfos(email)

\* C10: every event in the future part of the message airs after today and
\* no later than today + 7 days.
C10_FutureSectionInsideHorizon ==
    mailbox # <<>> =>
        \A k \in DOMAIN mailbox[1].body.future :
            LET date == mailbox[1].body.future[k].time.date IN
            Today < date /\ date <= Today + 7

---------------------------------------------------------------------------
(* Movies.                                                                  *)

\* The movie loop of main is over, and main goes on.
AfterMovieLoop == pc \in {"output", "send_email", "done"}

\* The title the availability API gives the i-th tracked movie.
TitleOf(i) == availability[db.movies[i]].title

\* The names of the subscription and add-on offerings of a response.
OfferingPlatforms(resp) ==
    { (IF resp.us[k].addon.kind = "str" THEN resp.us[k].addon.v
                                         ELSE resp.us[k].service) :
        k \in { i \in DOMAIN resp.us :
                  resp.us[i].streaming_type \in {"subscription", "addon"} } }

\* The subscriber platforms the i-th tracked movie is offered on.
MatchOf(i) ==
    config.movie_platforms \cap OfferingPlatforms(availability[db.movies[i]])

\* C6 as claimed: after the movie loop every tracked movie with a non-empty
\* intersection has an entry under its title holding exactly that
\* intersection, and the map has entries for such movies only: also when two
\* ids resolve to the same title.
C6_EveryMovieRecorded ==
    AfterMovieLoop =>
        /\ \A i \in DOMAIN db.movies :
              MatchOf(i) # {}
                  => /\ TitleOf(i) \in DOMAIN movie_to_platforms
                     /\ movie_to_platforms[TitleOf(i)] = MatchOf(i)
        /\ DOMAIN movie_to_platforms
              = { TitleOf(i) : i \in { k \in DOMAIN db.movies : MatchOf(k) # {} } }

\* The last movie of the list that has the title of the i-th and a non-empty
\* intersection.
LastWithTitleOf(i) ==
    CHOOSE j \in DOMAIN db.movies :
        /\ TitleOf(j) = TitleOf(i) /\ MatchOf(j) # {}
        /\ \A k \in DOMAIN db.movies :
              (TitleOf(k) = TitleOf(i) /\ MatchOf(k) # {}) => k <= j

\* C6 amended: after the movie loop every tracked movie with a non-empty
\* intersection has an entry under its title; the entry holds the
\* intersection of the last movie of the list with that title and a
\* non-empty intersection (its own, when no later such movie shares its
\* title); titles whose movies all have an empty intersection have no entry.
C6_LastMovieOfTitleRecorded ==
    AfterMovieLoop =>
        /\ \A i \in DOMAIN db.movies :
              MatchOf(i) # {}
                  => /\ TitleOf(i) \in DOMAIN movie_to_platforms
                     /\ movie_to_platforms[TitleOf(i)] = MatchOf(LastWithTitleOf(i))
        /\ DOMAIN movie_to_platforms
              = { TitleOf(i) : i \in { k \in DOMAIN db.movies : MatchOf(k) # {} } }

\* Two movies of one title, on different subscribed platforms, and a movie
\* on no subscribed platform, after the loop.
C6_Witness ==
    /\ AfterMovieLoop
    /\ Len(db.movies) >= 2
    /\ TitleOf(1) = TitleOf(2)
    /\ MatchOf(1) = {"B"}
    /\ MatchOf(2) = {"C"}
    /\ movie_to_platforms[TitleOf(1)] = {"C"}

KeptOfferings(us) ==
    SelectSeq(us, LAMBDA o : o.streaming_type \in {"subscription", "addon"})

\* C7 as claimed: the platform list has one name per subscription or add-on
\* offering and none for the others; the name is the service name for a
\* subscription, and for an add-on its add-on name when present and the
\* service name otherwise.
C7_NameByOfferingType ==
    movie # <<>> =>
        LET kept == KeptOfferings(availability[1].us) IN
        movie[1].platforms =
            [k \in DOMAIN kept |->
                IF kept[k].streaming_type = "addon" /\ kept[k].addon.kind = "str"
                THEN kept[k].addon.v
                ELSE kept[k].service]

\* C7 amended: the platform list has one name per subscription or add-on
\* offering and none for the others; the name is the offering's add-on name
\* when it has one, whatever its type, and the service name otherwise.
C7_AddonNameWhenPresent ==
    movie # <<>> =>
        LET kept == KeptOfferings(availability[1].us) IN
        movie[1].platforms =
            [k \in DOMAIN kept |->
                IF kept[k].addon.kind = "str" THEN kept[k].addon.v
                ELSE kept[k].service]

\* A response with a rental, and an add-on offering with its add-on name: the
\* list holds the add-on's name only.
C7_Witness ==
    /\ movie # <<>>
    /\ Len(availability[1].us) = 2
    /\ availability[1].us[1].streaming_type = "rent"
    /\ availability[1].us[2].streaming_type = "addon"
    /\ availability[1].us[2].addon.kind = "str"
    /\ movie[1].platforms = <<"X">>

---------------------------------------------------------------------------
(* Configuration and credential errors.                                     *)

StartupError == config.file # "ok" \/ config.fault = "pg_connection_string"

MailError == config.fault \in {"from_email", "smtp_host", "smtp_credentials"}

NoFetchStarted == requests = <<>>

EveryFetchStarted == Len(requests) = Len(db.shows) + Len(db.movies)

\* C9 as claimed: a missing or unparseable config file, an invalid database
\* connection string, sender address, SMTP host or SMTP credentials ends the
\* run at startup, before any show or movie fetch has been started.
C9_ConfigErrorsAtStartup ==
    (StartupError \/ MailError) =>
        /\ NoFetchStarted
        /\ Terminated => pc = "panicked"

\* C9 amended: a missing or unparseable config file or an invalid database
\* connection string ends the run before any show or movie fetch has been
\* started.  An invalid sender address, SMTP host or SMTP credentials is met
\* in send_email only: no message is sent, a run that is to send mail ends in
\* a panic, and when it panics over the address, the host or the credentials
\* every show and movie fetch has been started and joined before.
C9_StartupAndMailErrors ==
    /\ StartupError =>
          /\ NoFetchStarted
          /\ NothingPrintedOrMailed
          /\ Terminated => pc = "panicked"
    /\ MailError =>
          /\ mailbox = <<>>
          /\ (Terminated /\ ~no_mail) => pc = "panicked"
          /\ panic_msg \in {"from_email is not an address", "no relay for smtp_host",
                            "couldn't send the email"}
                => (EveryFetchStarted /\ ShowListProduced /\ movie_ids = <<>>)

\* An invalid sender address stopped the run in send_email, after a show and
\* a movie had been fetched.
C9_Witness ==
    /\ config.fault = "from_email"
    /\ pc = "panicked"
    /\ panic_msg = "from_email is not an address"
    /\ \E k \in DOMAIN requests : requests[k].kind = "show"
    /\ \E k \in DOMAIN requests : requests[k].kind = "movie"

===========================================================================
